---- MODULE Spec2Model ----
(***************************************************************************)
(* Stop-time quality gate (hooks/stop_quality_gate.py).                    *)
(*                                                                         *)
(* One invocation of main() is modelled as a sequential process whose      *)
(* position (pc) advances from one blocking subprocess.run call to the     *)
(* next.  The project directory (package.json, .git, lockfiles, local tool *)
(* cache, working tree) is the environment; what each child process does   *)
(* (cannot be started, runs longer than its timeout, exits with a code and *)
(* an error stream) is chosen nondeterministically when the call returns.  *)
(*                                                                         *)
(* Paths and the lookup's standard output are sequences of one-character   *)
(* strings.  A stage's error stream is run-length encoded (a sequence of   *)
(* [ch, n] runs) so that texts longer than the excerpt limit are           *)
(* representable.                                                          *)
(***************************************************************************)
EXTENDS Integers, Sequences, FiniteSets, TLC

\* ------------------------------------------------------------------ bounds
MaxChanged == 2      \* at most this many changed paths in the working tree
MaxRc == 1           \* child exit codes range over 0..MaxRc
MaxEdits == 1        \* at most this many edits of the project while stages run
MaxRounds == 2       \* at most this many invocations one after another
MaxCmdLen == 3       \* a guarded command has at most this many words

\* ------------------------------------------------------- program constants
LookupTimeout == 30
StageTimeout == 900
ExcerptLimit == 2000

\* ------------------------------------------------------------ text helpers
IsSpace(c) == c \in {" ", "\n", "\t"}

RECURSIVE lstrip(_)
lstrip(s) == IF s = <<>> THEN <<>>
             ELSE IF IsSpace(Head(s)) THEN lstrip(Tail(s)) ELSE s

RECURSIVE rstrip(_)
rstrip(s) == IF s = <<>> THEN <<>>
             ELSE IF IsSpace(s[Len(s)]) THEN rstrip(SubSeq(s, 1, Len(s) - 1)) ELSE s

\* str.strip() on a character sequence
strip(s) == rstrip(lstrip(s))

\* str.replace("\\", "/")
replaceBackslash(s) == [i \in 1..Len(s) |-> IF s[i] = "\\" THEN "/" ELSE s[i]]

\* str.splitlines(): lines end at "\n"; no trailing empty line
RECURSIVE splitlinesFrom(_, _)
splitlinesFrom(s, cur) ==
    IF s = <<>> THEN (IF cur = <<>> THEN <<>> ELSE <<cur>>)
    ELSE IF Head(s) = "\n" THEN <<cur>> \o splitlinesFrom(Tail(s), <<>>)
    ELSE splitlinesFrom(Tail(s), Append(cur, Head(s)))

splitlines(s) == splitlinesFrom(s, <<>>)

\* str.startswith(prefix)
startswith(p, prefix) ==
    /\ Len(p) >= Len(prefix)
    /\ SubSeq(p, 1, Len(prefix)) = prefix

\* the same three string operations on a run-length encoded text
RECURSIVE lstripText(_)
lstripText(t) == IF t = <<>> THEN <<>>
                 ELSE IF IsSpace(Head(t).ch) THEN lstripText(Tail(t)) ELSE t

RECURSIVE rstripText(_)
rstripText(t) == IF t = <<>> THEN <<>>
                 ELSE IF IsSpace(t[Len(t)].ch) THEN rstripText(SubSeq(t, 1, Len(t) - 1)) ELSE t

stripText(t) == rstripText(lstripText(t))

\* t[:k], and the slice left out
sliceText_untruncated(t, k) == t

\* t[:k]
RECURSIVE sliceText(_, _)
sliceText(t, k) ==
    IF t = <<>> \/ k <= 0 THEN <<>>
    ELSE IF Head(t).n >= k THEN <<[ch |-> Head(t).ch, n |-> k]>>
    ELSE <<Head(t)>> \o sliceText(Tail(t), k - Head(t).n)

RECURSIVE lenText(_)
lenText(t) == IF t = <<>> THEN 0 ELSE Head(t).n + lenText(Tail(t))

\* ------------------------------------------------------------ source data
\* the prefix table with the schema-migration directory missing
TEST_RELEVANT_PREFIXES_noPrisma == {
    <<"s","r","c","/">>,
    <<"a","p","p","/">>,
    <<"p","a","g","e","s","/">>,
    <<"s","e","r","v","e","r","/">>,
    <<"a","p","i","/">> }

TEST_RELEVANT_PREFIXES == {
    <<"s","r","c","/">>,
    <<"a","p","p","/">>,
    <<"p","a","g","e","s","/">>,
    <<"s","e","r","v","e","r","/">>,
    <<"a","p","i","/">>,
    <<"p","r","i","s","m","a","/">> }

ScriptNames == {"lint", "typecheck", "test"}
Lockfiles == {"pnpm-lock.yaml", "yarn.lock", "bun.lockb"}

\* paths git may list, in git's listing order
PathList == <<
    <<"R">>,                                   \* README-like file at the root
    <<"d","/","s","r","c","/","a">>,           \* core prefix only later in the path
    <<"p","r","i","s","m","a","/","s">>,
    <<"s","r","c","\\","a">> >>                \* backslash-separated

Trees == {T \in SUBSET (1..Len(PathList)) : Cardinality(T) <= MaxChanged}

\* contents of package.json: not valid JSON, no/ null "scripts", or a scripts table
PkgJsons == {[valid |-> FALSE, hasScripts |-> FALSE, scripts |-> {}],
             [valid |-> TRUE, hasScripts |-> FALSE, scripts |-> {}]}
            \cup {[valid |-> TRUE, hasScripts |-> TRUE, scripts |-> S] : S \in SUBSET ScriptNames}

\* error streams a stage may produce
StderrSamples == {
    <<>>,
    <<[ch |-> " ", n |-> 2], [ch |-> "\n", n |-> 1]>>,
    <<[ch |-> "\n", n |-> 1], [ch |-> "3", n |-> 1], [ch |-> " ", n |-> 1], [ch |-> "p", n |-> 8], [ch |-> "\n", n |-> 1]>>,
    <<[ch |-> " ", n |-> 1], [ch |-> "e", n |-> ExcerptLimit], [ch |-> "f", n |-> 1]>> }

VARIABLES
    pkgExists,    \* project_dir/package.json exists
    gitExists,    \* project_dir/.git exists
    pkgJson,      \* contents of package.json
    lockfiles,    \* lockfiles present in project_dir
    eslintBin,    \* node_modules/.bin/eslint exists
    tscBin,       \* a type-checker is installed in the project (never read by main)
    tree,         \* indices into PathList of paths changed in the working tree
    pc,           \* "idle", "diff", "lint", "eslint", "typecheck", "test", "done"
    changed,      \* main's list of changed paths
    pm_cmd,       \* main's package-manager command
    errors,       \* main's list of failure labels and excerpts
    invoked,      \* every subprocess.run call made, in order, with how it ended
    stderrOut,    \* lines written to the orchestrator's error stream
    exitCode,     \* process exit status, -1 while running
    uncaught,     \* exception that left main, "none" otherwise
    round,        \* which invocation of the orchestrator this is: 1, 2, ...
    prev,         \* what the previous invocation did and answered, NoPrev in the first
    edits,        \* edits made to the project while a stage was running, in order
    guard         \* the Command Guard's invocation: its payload, position and decision

vars == <<pkgExists, gitExists, pkgJson, lockfiles, eslintBin, tscBin, tree,
          pc, changed, pm_cmd, errors, invoked, stderrOut, exitCode, uncaught,
          round, prev, edits, guard>>

env == <<pkgExists, gitExists, pkgJson, lockfiles, eslintBin, tscBin, tree>>

\* what one invocation of main never touches: the count and record of other
\* invocations, the log of project edits, and the other hook
outside == <<round, prev, edits, guard>>

\* -------------------------------------------------------------- functions
\* what a child process does: an Outcome
Outcome(startable, duration, returncode, stdout, stderr) ==
    [startable |-> startable, duration |-> duration, returncode |-> returncode,
     stdout |-> stdout, stderr |-> stderr]

\* subprocess.run(..., timeout=timeout): a CompletedProcess or a raised exception
run(o, timeout) ==
    IF ~o.startable
    THEN [raised |-> "FileNotFoundError", returncode |-> 0, stdout |-> <<>>, stderr |-> <<>>]
    ELSE IF o.duration > timeout
    THEN [raised |-> "TimeoutExpired", returncode |-> 0, stdout |-> <<>>, stderr |-> <<>>]
    ELSE [raised |-> "none", returncode |-> o.returncode, stdout |-> o.stdout, stderr |-> o.stderr]

\* the same detection looking for yarn.lock before pnpm-lock.yaml
detect_pm_yarnFirst(locks) ==
    IF "yarn.lock" \in locks THEN <<"yarn">>
    ELSE IF "pnpm-lock.yaml" \in locks THEN <<"pnpm">>
    ELSE IF "bun.lockb" \in locks THEN <<"bun">>
    ELSE <<"npm">>

\* lines 21-28
detect_pm(locks) ==
    IF "pnpm-lock.yaml" \in locks THEN <<"pnpm">>
    ELSE IF "yarn.lock" \in locks THEN <<"yarn">>
    ELSE IF "bun.lockb" \in locks THEN <<"bun">>
    ELSE <<"npm">>

\* the same lookup answering True when package.json cannot be parsed
has_script_failClosed(exists, pkg, script) ==
    IF ~exists THEN FALSE
    ELSE IF ~pkg.valid THEN TRUE
    ELSE script \in (IF pkg.hasScripts THEN pkg.scripts ELSE {})

\* lines 30-40
has_script(exists, pkg, script) ==
    IF ~exists THEN FALSE
    ELSE IF ~pkg.valid THEN FALSE
    ELSE script \in (IF pkg.hasScripts THEN pkg.scripts ELSE {})

\* git diff --name-only prints one changed path per line
RECURSIVE GitListing(_, _)
GitListing(T, i) ==
    IF i > Len(PathList) THEN <<>>
    ELSE (IF i \in T THEN PathList[i] \o <<"\n">> ELSE <<>>) \o GitListing(T, i + 1)

\* [line.strip().replace("\\", "/") for line in stdout.splitlines() if line.strip()]
RECURSIVE changedFromLines(_)
changedFromLines(ls) ==
    IF ls = <<>> THEN <<>>
    ELSE (IF strip(Head(ls)) # <<>> THEN <<replaceBackslash(strip(Head(ls)))>> ELSE <<>>)
         \o changedFromLines(Tail(ls))

changedFrom(stdout) == changedFromLines(splitlines(stdout))

\* if not changed  (line 57), and the same test with the condition inverted
notChanged_inverted(ch) == ch # <<>>

notChanged(ch) == ch = <<>>

\* any(p.startswith(TEST_RELEVANT_PREFIXES) for p in changed)
should_test(ch) ==
    \E i \in 1..Len(ch) : \E pre \in TEST_RELEVANT_PREFIXES : startswith(ch[i], pre)

Label(l) == [kind |-> "label", label |-> l, text |-> <<>>]
Excerpt(t) == [kind |-> "excerpt", label |-> "", text |-> t]

\* the same recording with the excerpt appended before the label
recordFailure_excerptFirst(errs, label, r) ==
    IF r.returncode # 0
    THEN IF stripText(r.stderr) # <<>>
         THEN errs \o <<Excerpt(sliceText(stripText(r.stderr), ExcerptLimit)), Label(label)>>
         ELSE errs \o <<Label(label)>>
    ELSE errs

\* if r.returncode != 0: errors.append(label); if r.stderr.strip(): errors.append(...[:2000])
recordFailure(errs, label, r) ==
    IF r.returncode # 0
    THEN IF stripText(r.stderr) # <<>>
         THEN errs \o <<Label(label), Excerpt(sliceText(stripText(r.stderr), ExcerptLimit))>>
         ELSE errs \o <<Label(label)>>
    ELSE errs

\* the lines main prints when errors is non-empty
report(errs) ==
    <<[line |-> "QUALITY GATE BLOCKED STOP:", e |-> Label("")]>>
    \o [i \in 1..Len(errs) |-> [line |-> "- ", e |-> errs[i]]]
    \o <<[line |-> "\nFix the failures, then continue.", e |-> Label("")]>>

Call(stage, cmd, timeout) ==
    [stage |-> stage, cmd |-> cmd, timeout |-> timeout, result |-> "running", stderr |-> <<>>]

resultKind(r) ==
    IF r.raised = "TimeoutExpired" THEN "timeout"
    ELSE IF r.raised # "none" THEN "oserror"
    ELSE IF r.returncode # 0 THEN "nonzero" ELSE "ok"

\* a call that is never marked as ended (started without waiting for it)
finished_notWaited(inv, r) == inv

\* the last call of inv, marked with how it ended and the error stream it captured
finished(inv, r) ==
    [inv EXCEPT ![Len(inv)].result = resultKind(r), ![Len(inv)].stderr = r.stderr]

\* a stage cannot be started, outlives its timeout, or ends in time with an
\* exit code and an error stream
StageOutcomes ==
    {Outcome(FALSE, 1, 0, <<>>, <<>>), Outcome(TRUE, StageTimeout + 1, 0, <<>>, <<>>)}
    \cup {Outcome(TRUE, LookupTimeout + 1, rc, <<>>, e) : rc \in 0..MaxRc, e \in StderrSamples}

\* the lookup cannot be started, outlives its timeout, lists the tree and
\* exits 0, or fails with a nonzero code and no output
DiffOutcomes ==
    {Outcome(FALSE, 1, 0, <<>>, <<>>), Outcome(TRUE, LookupTimeout + 1, 0, <<>>, <<>>),
     Outcome(TRUE, 1, 0, GitListing(tree, 1), <<>>)}
    \cup {Outcome(TRUE, 1, rc, <<>>, <<>>) : rc \in 1..MaxRc}

\* no invocation came before this one
NoPrev == [exitCode |-> -1, stderrOut |-> <<>>, invoked |-> <<>>]

\* the Command Guard before it reads its payload
NoPayload == [decodable |-> TRUE, tool_name |-> "", command |-> <<>>]

GuardIdle(p) ==
    [pc |-> "idle", payload |-> p, rule |-> 1, diagnostics |-> <<>>,
     stderr |-> <<>>, exit |-> -1]

TypeOK ==
    /\ pkgExists \in BOOLEAN /\ gitExists \in BOOLEAN
    /\ pkgJson \in PkgJsons /\ lockfiles \subseteq Lockfiles
    /\ eslintBin \in BOOLEAN /\ tscBin \in BOOLEAN /\ tree \in Trees
    /\ pc \in {"idle", "diff", "lint", "eslint", "typecheck", "test", "done"}
    /\ exitCode \in -1..2

Init ==
    /\ pkgExists \in BOOLEAN
    /\ gitExists \in BOOLEAN
    /\ pkgJson \in PkgJsons
    /\ lockfiles \in SUBSET Lockfiles
    /\ eslintBin \in BOOLEAN
    /\ tscBin \in BOOLEAN
    /\ tree \in Trees
    /\ pc = "idle"
    /\ changed = <<>>
    /\ pm_cmd = ""
    /\ errors = <<>>
    /\ invoked = <<>>
    /\ stderrOut = <<>>
    /\ exitCode = -1
    /\ uncaught = "none"
    /\ round = 1
    /\ prev = NoPrev
    /\ edits = <<>>
    /\ guard = GuardIdle(NoPayload)

\* ---------------------------------------------------------------- steps
\* return code  (raise SystemExit(main()))
Return(code) ==
    /\ pc' = "done"
    /\ exitCode' = code

\* an exception leaves main: the interpreter prints a traceback and exits 1
Raise(exc) ==
    /\ pc' = "done"
    /\ exitCode' = 1
    /\ uncaught' = exc
    /\ stderrOut' = Append(stderrOut, [line |-> "Traceback", e |-> Label(exc)])

\* lines 101-109
Aggregate(errs) ==
    IF errs # <<>>
    THEN /\ stderrOut' = stderrOut \o report(errs)
         /\ Return(2)
    ELSE /\ stderrOut' = stderrOut
         /\ Return(0)

\* lines 82-86: start the typecheck subprocess
StartTypecheck(inv, pm) ==
    /\ pc' = "typecheck"
    /\ invoked' = Append(inv,
          IF has_script(pkgExists, pkgJson, "typecheck")
          THEN Call("typecheck", <<pm, "run", "typecheck">>, StageTimeout)
          ELSE Call("typecheck", <<"npx", "tsc", "--noEmit">>, StageTimeout))

\* the same selection with the fallback run without looking for the binary
StartLint_noBinCheck(inv, pm) ==
    IF has_script(pkgExists, pkgJson, "lint")
    THEN /\ pc' = "lint"
         /\ invoked' = Append(inv, Call("lint", <<pm, "run", "lint">>, StageTimeout))
    ELSE /\ pc' = "eslint"
         /\ invoked' = Append(inv, Call("lint", <<"npx", "eslint", ".">>, StageTimeout))

\* lines 65-86: start the lint subprocess, the eslint fallback, or go on to typecheck
StartLint(inv, pm) ==
    IF has_script(pkgExists, pkgJson, "lint")
    THEN /\ pc' = "lint"
         /\ invoked' = Append(inv, Call("lint", <<pm, "run", "lint">>, StageTimeout))
    ELSE IF eslintBin
    THEN /\ pc' = "eslint"
         /\ invoked' = Append(inv, Call("lint", <<"npx", "eslint", ".">>, StageTimeout))
    ELSE StartTypecheck(inv, pm)

\* lines 42-54
Invoke ==
    /\ pc = "idle"
    /\ IF ~pkgExists THEN Return(0) /\ UNCHANGED invoked
       ELSE IF ~gitExists THEN Return(0) /\ UNCHANGED invoked
       ELSE /\ pc' = "diff"
            /\ invoked' = Append(invoked, Call("diff", <<"git", "diff", "--name-only">>, LookupTimeout))
            /\ UNCHANGED exitCode
    /\ UNCHANGED <<env, changed, pm_cmd, errors, stderrOut, uncaught, outside>>

\* the same step with the lookup's exit status treated as a failure
DiffReturns_checksStatus ==
    /\ pc = "diff"
    /\ \E o \in DiffOutcomes :
         LET r == run(o, LookupTimeout)
             inv == finished(invoked, r)
         IN IF r.raised # "none"
            THEN /\ Raise(r.raised)
                 /\ invoked' = inv
                 /\ UNCHANGED <<changed, pm_cmd, errors>>
            ELSE IF r.returncode # 0
            THEN /\ Return(2)
                 /\ invoked' = inv
                 /\ UNCHANGED <<changed, pm_cmd, errors, stderrOut, uncaught>>
            ELSE /\ changed' = changedFrom(r.stdout)
                 /\ IF notChanged(changed')
                    THEN /\ Return(0)
                         /\ invoked' = inv
                         /\ UNCHANGED <<pm_cmd, errors, stderrOut, uncaught>>
                    ELSE /\ pm_cmd' = detect_pm(lockfiles)[1]
                         /\ errors' = <<>>
                         /\ StartLint(inv, pm_cmd')
                         /\ UNCHANGED <<stderrOut, exitCode, uncaught>>
    /\ UNCHANGED <<env, outside>>

\* lines 54-86: the lookup returns
DiffReturns ==
    /\ pc = "diff"
    /\ \E o \in DiffOutcomes :
         LET r == run(o, LookupTimeout)
             inv == finished(invoked, r)
         IN IF r.raised # "none"
            THEN /\ Raise(r.raised)
                 /\ invoked' = inv
                 /\ UNCHANGED <<changed, pm_cmd, errors>>
            ELSE /\ changed' = changedFrom(r.stdout)
                 /\ IF notChanged(changed')
                    THEN /\ Return(0)
                         /\ invoked' = inv
                         /\ UNCHANGED <<pm_cmd, errors, stderrOut, uncaught>>
                    ELSE /\ pm_cmd' = detect_pm(lockfiles)[1]
                         /\ errors' = <<>>
                         /\ StartLint(inv, pm_cmd')
                         /\ UNCHANGED <<stderrOut, exitCode, uncaught>>
    /\ UNCHANGED <<env, outside>>

\* the same label whichever lint command ran
lintLabel_always(p) == "lint failed"

\* lines 69 and 78: the label of the lint command that is running
lintLabel(p) == IF p = "lint" THEN "lint failed" ELSE "eslint failed"

\* lines 67-71 and 76-80, then 82-86: the lint subprocess returns
LintReturns ==
    /\ pc \in {"lint", "eslint"}
    /\ \E o \in StageOutcomes :
         LET r == run(o, StageTimeout)
             inv == finished(invoked, r)
         IN IF r.raised # "none"
            THEN /\ Raise(r.raised)
                 /\ invoked' = inv
                 /\ UNCHANGED errors
            ELSE /\ errors' = recordFailure(errors, lintLabel(pc), r)
                 /\ StartTypecheck(inv, pm_cmd)
                 /\ UNCHANGED <<stderrOut, exitCode, uncaught>>
    /\ UNCHANGED <<env, changed, pm_cmd, outside>>

\* the same step with the test gate listing the working tree again
TypecheckReturns_relists ==
    /\ pc = "typecheck"
    /\ \E o \in StageOutcomes :
         LET r == run(o, StageTimeout)
             inv == finished(invoked, r)
         IN IF r.raised # "none"
            THEN /\ Raise(r.raised)
                 /\ invoked' = inv
                 /\ UNCHANGED errors
            ELSE /\ errors' = recordFailure(errors, "typecheck failed", r)
                 /\ IF should_test(changedFrom(GitListing(tree, 1)))
                       /\ has_script(pkgExists, pkgJson, "test")
                    THEN /\ pc' = "test"
                         /\ invoked' = Append(inv, Call("test", <<pm_cmd, "test">>, StageTimeout))
                         /\ UNCHANGED <<stderrOut, exitCode>>
                    ELSE /\ invoked' = inv
                         /\ Aggregate(errors')
                 /\ UNCHANGED uncaught
    /\ UNCHANGED <<env, changed, pm_cmd, outside>>

\* lines 84-95, 101-109: the typecheck subprocess returns
TypecheckReturns ==
    /\ pc = "typecheck"
    /\ \E o \in StageOutcomes :
         LET r == run(o, StageTimeout)
             inv == finished(invoked, r)
         IN IF r.raised # "none"
            THEN /\ Raise(r.raised)
                 /\ invoked' = inv
                 /\ UNCHANGED errors
            ELSE /\ errors' = recordFailure(errors, "typecheck failed", r)
                 /\ IF should_test(changed) /\ has_script(pkgExists, pkgJson, "test")
                    THEN /\ pc' = "test"
                         /\ invoked' = Append(inv, Call("test", <<pm_cmd, "test">>, StageTimeout))
                         /\ UNCHANGED <<stderrOut, exitCode>>
                    ELSE /\ invoked' = inv
                         /\ Aggregate(errors')
                 /\ UNCHANGED uncaught
    /\ UNCHANGED <<env, changed, pm_cmd, outside>>

\* lines 95-109: the test subprocess returns
TestReturns ==
    /\ pc = "test"
    /\ \E o \in StageOutcomes :
         LET r == run(o, StageTimeout)
             inv == finished(invoked, r)
         IN /\ invoked' = inv
            /\ IF r.raised # "none"
               THEN /\ Raise(r.raised)
                    /\ UNCHANGED errors
               ELSE /\ errors' = recordFailure(errors, "tests failed", r)
                    /\ Aggregate(errors')
                    /\ UNCHANGED uncaught
    /\ UNCHANGED <<env, changed, pm_cmd, outside>>

Next ==
    \/ Invoke
    \/ DiffReturns
    \/ LintReturns
    \/ TypecheckReturns
    \/ TestReturns

Spec == Init /\ [][Next]_vars

\* ------------------------------------- the project edited while a stage runs
\* main blocks in subprocess.run while lint or typecheck runs; meanwhile the
\* stage itself or the developer may add or remove a changed path and may add
\* or remove a script of package.json
EditablePaths == {1, 3}
EditableScripts == {"typecheck", "test"}

toggle(S, x) == IF x \in S THEN S \ {x} ELSE S \cup {x}

TreeEdits(T) == {T} \cup {toggle(T, i) : i \in EditablePaths}

PkgEdits(pkg) ==
    {pkg} \cup (IF pkg.valid /\ pkg.hasScripts
                THEN {[pkg EXCEPT !.scripts = toggle(pkg.scripts, n)] : n \in EditableScripts}
                ELSE {})

ProjectEdited ==
    /\ pc \in {"lint", "eslint", "typecheck"}
    /\ Len(edits) < MaxEdits
    /\ \E T \in TreeEdits(tree) \cap Trees, pkg \in PkgEdits(pkgJson) :
         /\ <<T, pkg>> # <<tree, pkgJson>>
         /\ tree' = T
         /\ pkgJson' = pkg
         /\ edits' = Append(edits, [during |-> pc, tree |-> tree, pkgJson |-> pkgJson])
    /\ UNCHANGED <<pkgExists, gitExists, lockfiles, eslintBin, tscBin,
                   pc, changed, pm_cmd, errors, invoked, stderrOut, exitCode, uncaught,
                   round, prev, guard>>

\* a project with a lint and a test script and one changed file
InitEdit ==
    /\ Init
    /\ pkgExists /\ gitExists /\ ~eslintBin /\ tscBin
    /\ lockfiles = {}
    /\ pkgJson = [valid |-> TRUE, hasScripts |-> TRUE, scripts |-> {"lint", "test"}]
    /\ tree \in {{1}, {3}}

NextEdit ==
    \/ Invoke
    \/ DiffReturns
    \/ LintReturns
    \/ TypecheckReturns
    \/ TestReturns
    \/ ProjectEdited

SpecEdit == InitEdit /\ [][NextEdit]_vars

\* ------------------------------------------- one invocation after another
\* the same step with the new process writing to the stream of the last one
Reinvoke_sameStream ==
    /\ pc = "done"
    /\ round < MaxRounds
    /\ round' = round + 1
    /\ prev' = [exitCode |-> exitCode, stderrOut |-> stderrOut, invoked |-> invoked]
    /\ pc' = "idle"
    /\ changed' = <<>>
    /\ pm_cmd' = ""
    /\ errors' = <<>>
    /\ invoked' = <<>>
    /\ exitCode' = -1
    /\ uncaught' = "none"
    /\ UNCHANGED <<env, stderrOut, edits, guard>>

\* lines 111-112: the host starts the hook again, as a new process, on the
\* same project; prev keeps what the process that ended did and answered
Reinvoke ==
    /\ pc = "done"
    /\ round < MaxRounds
    /\ round' = round + 1
    /\ prev' = [exitCode |-> exitCode, stderrOut |-> stderrOut, invoked |-> invoked]
    /\ pc' = "idle"
    /\ changed' = <<>>
    /\ pm_cmd' = ""
    /\ errors' = <<>>
    /\ invoked' = <<>>
    /\ stderrOut' = <<>>
    /\ exitCode' = -1
    /\ uncaught' = "none"
    /\ UNCHANGED <<env, edits, guard>>

\* a project with one changed file and a lint or a test script
InitTwice ==
    /\ Init
    /\ pkgExists /\ gitExists /\ ~eslintBin /\ tscBin
    /\ lockfiles = {}
    /\ pkgJson \in {[valid |-> TRUE, hasScripts |-> TRUE, scripts |-> S] : S \in {{"lint"}, {"test"}}}
    /\ tree \in {{1}, {3}}

NextTwice ==
    \/ Invoke
    \/ DiffReturns
    \/ LintReturns
    \/ TypecheckReturns
    \/ TestReturns
    \/ Reinvoke

SpecTwice == InitTwice /\ [][NextTwice]_vars

\* ------------------------------------------------------------ Command Guard
\* The guard's source is not among the files under src/: this part follows
\* sections 3, 4.1 and 6 of the specification. A command is a sequence of
\* words; a pattern is a sequence of lower-case words found anywhere in it.
ShellTool == "Bash"
Tools == {"Bash", "Write"}
Words == {"sudo", "SUDO", "rm", "-rf", "/", "cat", ".env", " "}

lower(w) == IF w = "SUDO" THEN "sudo" ELSE w

HardBlockRules == <<
    [pattern |-> <<"rm", "-rf", "/">>, message |-> "recursive delete of the root"],
    [pattern |-> <<"sudo">>, message |-> "privilege escalation"] >>

SecretRules == <<
    [pattern |-> <<"cat", ".env">>, message |-> "reads a secrets file"] >>

RuleTable == HardBlockRules \o SecretRules

Commands == UNION {[1..n -> Words] : n \in 0..MaxCmdLen}

Payloads ==
    {[decodable |-> FALSE, tool_name |-> "", command |-> <<>>]}
    \cup {[decodable |-> TRUE, tool_name |-> t, command |-> c] : t \in Tools, c \in Commands}

\* the pattern is found in the command, whatever the case of the command
matches(pattern, command) ==
    \E k \in 1..(Len(command) - Len(pattern) + 1) :
        \A j \in 1..Len(pattern) : lower(command[k + j - 1]) = pattern[j]

\* empty or whitespace-only
blank(command) == \A i \in 1..Len(command) : command[i] = " "

gate == <<env, pc, changed, pm_cmd, errors, invoked, stderrOut, exitCode, uncaught,
          round, prev, edits>>

GuardEnds(diagnostics, stderr, exit) ==
    guard' = [guard EXCEPT !.pc = "done", !.diagnostics = diagnostics,
                           !.stderr = stderr, !.exit = exit]

\* the same step without the fast accept of other tools
GuardInvoke_noToolCheck ==
    /\ guard.pc = "idle"
    /\ IF ~guard.payload.decodable
       THEN GuardEnds(<<>>, <<"invalid input">>, 1)
       ELSE IF blank(guard.payload.command)
       THEN GuardEnds(<<>>, <<>>, 0)
       ELSE guard' = [guard EXCEPT !.pc = "rules"]
    /\ UNCHANGED gate

\* the payload is decoded; other tools and blank commands are accepted at once
GuardInvoke ==
    /\ guard.pc = "idle"
    /\ IF ~guard.payload.decodable
       THEN GuardEnds(<<>>, <<"invalid input">>, 1)
       ELSE IF guard.payload.tool_name # ShellTool
       THEN GuardEnds(<<>>, <<>>, 0)
       ELSE IF blank(guard.payload.command)
       THEN GuardEnds(<<>>, <<>>, 0)
       ELSE guard' = [guard EXCEPT !.pc = "rules"]
    /\ UNCHANGED gate

\* the same step stopping at the first rule that matches
GuardCheckRule_firstOnly ==
    /\ guard.pc = "rules"
    /\ guard.rule <= Len(RuleTable)
    /\ guard' = IF matches(RuleTable[guard.rule].pattern, guard.payload.command)
                THEN [guard EXCEPT !.rule = Len(RuleTable) + 1,
                                   !.diagnostics = Append(@, RuleTable[guard.rule].message)]
                ELSE [guard EXCEPT !.rule = @ + 1]
    /\ UNCHANGED gate

\* the next rule of the table is tried; its message is collected if it matches
GuardCheckRule ==
    /\ guard.pc = "rules"
    /\ guard.rule <= Len(RuleTable)
    /\ guard' = IF matches(RuleTable[guard.rule].pattern, guard.payload.command)
                THEN [guard EXCEPT !.rule = @ + 1,
                                   !.diagnostics = Append(@, RuleTable[guard.rule].message)]
                ELSE [guard EXCEPT !.rule = @ + 1]
    /\ UNCHANGED gate

\* every rule was tried: block (exit 2) with the messages, or allow silently
GuardDecide ==
    /\ guard.pc = "rules"
    /\ guard.rule > Len(RuleTable)
    /\ IF guard.diagnostics # <<>>
       THEN GuardEnds(guard.diagnostics, guard.diagnostics, 2)
       ELSE GuardEnds(<<>>, <<>>, 0)
    /\ UNCHANGED gate

InitGuard ==
    /\ pkgExists = FALSE /\ gitExists = FALSE
    /\ pkgJson = [valid |-> FALSE, hasScripts |-> FALSE, scripts |-> {}]
    /\ lockfiles = {} /\ eslintBin = FALSE /\ tscBin = FALSE /\ tree = {}
    /\ pc = "idle" /\ changed = <<>> /\ pm_cmd = "" /\ errors = <<>>
    /\ invoked = <<>> /\ stderrOut = <<>> /\ exitCode = -1 /\ uncaught = "none"
    /\ round = 1 /\ prev = NoPrev /\ edits = <<>>
    /\ guard \in {GuardIdle(p) : p \in Payloads}

NextGuard ==
    \/ GuardInvoke
    \/ GuardCheckRule
    \/ GuardDecide

SpecGuard == InitGuard /\ [][NextGuard]_vars

\* ---------------------------------------------------------- observations
Stages == {"lint", "typecheck", "test"}

Done == pc = "done"

\* the label main records when this call fails
LabelOf(call) ==
    IF call.stage = "lint"
    THEN (IF call.cmd = <<"npx", "eslint", ".">> THEN "eslint failed" ELSE "lint failed")
    ELSE IF call.stage = "typecheck" THEN "typecheck failed"
    ELSE "tests failed"

\* the label is one of the "- ..." lines written to the error stream
InDiagnostics(l) ==
    \E j \in 1..Len(stderrOut) : stderrOut[j] = [line |-> "- ", e |-> Label(l)]

StageCalls == {i \in 1..Len(invoked) : invoked[i].stage \in Stages}

StageRun(stage) == \E i \in 1..Len(invoked) : invoked[i].stage = stage

\* the lookup returned, so main computed its changed-files list
ListComputed ==
    /\ Len(invoked) >= 1
    /\ invoked[1].stage = "diff"
    /\ invoked[1].result \in {"ok", "nonzero"}

\* the stage's tool is neither declared as a script nor installed
ToolAbsent(stage) ==
    IF stage = "lint" THEN ~has_script(pkgExists, pkgJson, "lint") /\ ~eslintBin
    ELSE IF stage = "typecheck" THEN ~has_script(pkgExists, pkgJson, "typecheck") /\ ~tscBin
    ELSE ~has_script(pkgExists, pkgJson, "test")

\* ------------------------------------------------------------------ claims
\* C1: when the invocation has ended, every stage whose subprocess exceeded
\* its timeout has its failure label in the diagnostics, the decision is
\* block (exit 2), and no exception left the orchestrator.
C1_TimeoutIsStageFailure ==
    Done => \A i \in StageCalls :
        invoked[i].result = "timeout" =>
            /\ uncaught = "none"
            /\ exitCode = 2
            /\ InDiagnostics(LabelOf(invoked[i]))

\* C2: when the invocation has ended, every stage that was run and exited
\* nonzero has its label in the diagnostics and the decision is block
\* (exit 2), whatever the later stages did.
C2_RecordedFailureBlocks ==
    Done => \A i \in StageCalls :
        invoked[i].result = "nonzero" =>
            /\ exitCode = 2
            /\ InDiagnostics(LabelOf(invoked[i]))

\* C3: when the invocation has ended, every stage whose subprocess could not
\* be started has its label recorded, the stages after it were still run
\* (typecheck always follows lint), the decision is block and no exception
\* left the orchestrator.
C3_LaunchFailureIsStageFailure ==
    Done => \A i \in StageCalls :
        invoked[i].result = "oserror" =>
            /\ uncaught = "none"
            /\ exitCode = 2
            /\ InDiagnostics(LabelOf(invoked[i]))
            /\ (invoked[i].stage = "lint" => StageRun("typecheck"))

\* C4: every invocation ends with exit status 0 or 2 and no exception
\* propagates out of the orchestrator.
C4_NeverRaises ==
    Done => uncaught = "none" /\ exitCode \in {0, 2}

\* C5: in every invocation whose applicability check did not itself fault,
\* the decision is block (exit 2) exactly when some stage that was run exited
\* nonzero, timed out or could not be started; otherwise it is allow (exit 0).
C5_BlockIffStageFailed ==
    (Done /\ (invoked = <<>> \/ ListComputed)) =>
        IF \E i \in StageCalls : invoked[i].result \in {"nonzero", "timeout", "oserror"}
        THEN exitCode = 2
        ELSE exitCode = 0

\* C6: when the changed-files lookup cannot be started or exceeds its
\* timeout, the invocation ends with allow (exit 0) and no uncaught error.
C6_LookupFaultAllows ==
    (Done /\ Len(invoked) >= 1 /\ invoked[1].result \in {"timeout", "oserror"})
        => exitCode = 0 /\ uncaught = "none"

\* C7: a stage whose tool is neither declared nor installed is skipped: no
\* subprocess is run for it and its failure label is never recorded.
C7_AbsentToolSkipped ==
    \A stage \in Stages :
        ToolAbsent(stage) =>
            /\ ~StageRun(stage)
            /\ \A j \in 1..Len(errors) :
                 errors[j].label \notin
                    (IF stage = "lint" THEN {"lint failed", "eslint failed"}
                     ELSE IF stage = "typecheck" THEN {"typecheck failed"}
                     ELSE {"tests failed"})

\* C8 (as stated): when the changed-files list is empty the decision is
\* allow and no subprocess at all was invoked.
C8_EmptyListZeroSubprocesses ==
    (Done /\ ListComputed /\ changed = <<>>) => exitCode = 0 /\ Len(invoked) = 0

\* C8 (amended): when the changed-files list is empty the decision is allow
\* and the only subprocess invoked is the changed-files lookup itself; no
\* lint, typecheck or test subprocess was run.
C8_EmptyListOnlyLookup ==
    (Done /\ ListComputed /\ changed = <<>>) =>
        /\ exitCode = 0
        /\ Len(invoked) = 1
        /\ invoked[1].cmd = <<"git", "diff", "--name-only">>
        /\ stderrOut = <<>>

C8_Witness ==
    /\ Done /\ ListComputed /\ changed = <<>>
    /\ tree = {} /\ invoked[1].result = "ok"
    /\ has_script(pkgExists, pkgJson, "lint")

\* C9: a project with no package.json, no .git directory or no changed files
\* ends with allow (exit 0) and no lint, typecheck or test stage run; in the
\* first two cases no subprocess at all was invoked.
C9_InapplicableAllows ==
    Done =>
        /\ (~pkgExists \/ ~gitExists \/ tree = {}) => (exitCode = 0 /\ StageCalls = {})
        /\ (~pkgExists \/ ~gitExists) => invoked = <<>>

\* C10: in an applicable invocation the test stage is run exactly when a test
\* script is declared and some changed path starts with a core prefix.
C10_TestGating ==
    (Done /\ pkgExists /\ gitExists /\ ListComputed /\ changed # <<>>) =>
        (StageRun("test") <=> (has_script(pkgExists, pkgJson, "test") /\ should_test(changed)))

\* ------------------------------------------------- observations, continued
\* position of a stage in the pipeline, the lookup first
StageRank(stage) ==
    IF stage = "diff" THEN 0
    ELSE IF stage = "lint" THEN 1
    ELSE IF stage = "typecheck" THEN 2
    ELSE 3

LabelRank(l) ==
    IF l \in {"lint failed", "eslint failed"} THEN 1
    ELSE IF l = "typecheck failed" THEN 2
    ELSE 3

\* applicability is established: the lookup returned a non-empty list
Applicable == ListComputed /\ changed # <<>>

CallsOf(stage) == {i \in 1..Len(invoked) : invoked[i].stage = stage}

Min(a, b) == IF a <= b THEN a ELSE b

\* a is an initial part of b (both run-length encoded, adjacent runs differing)
PrefixText(a, b) ==
    \/ a = <<>>
    \/ /\ Len(a) <= Len(b)
       /\ \A i \in 1..(Len(a) - 1) : a[i] = b[i]
       /\ a[Len(a)].ch = b[Len(a)].ch
       /\ a[Len(a)].n <= b[Len(a)].n

\* e is the excerpt of the error stream captured by call c
ExcerptOf(e, c) ==
    /\ e.kind = "excerpt"
    /\ PrefixText(e.text, stripText(c.stderr))
    /\ lenText(e.text) = Min(ExcerptLimit, lenText(stripText(c.stderr)))

ReadmeOnly == changed = << <<"R">> >>

\* C11: when the only changed file is a root-level document, the test stage
\* is never run, the lint and typecheck scripts are each run when declared,
\* and every nonzero exit of theirs ends in block.
C11_DocsOnlyChange ==
    (Done /\ ListComputed /\ ReadmeOnly) =>
        /\ ~StageRun("test")
        /\ has_script(pkgExists, pkgJson, "lint") =>
             \E i \in CallsOf("lint") : invoked[i].cmd = <<pm_cmd, "run", "lint">>
        /\ has_script(pkgExists, pkgJson, "typecheck") =>
             \E i \in CallsOf("typecheck") : invoked[i].cmd = <<pm_cmd, "run", "typecheck">>
        /\ \A i \in StageCalls : invoked[i].result = "nonzero" => exitCode = 2

\* C12: subprocesses run one at a time in the order lookup, lint, typecheck,
\* test: only the most recent call can still be running, calls appear in
\* pipeline order with no stage twice, and a stage is started only after the
\* lookup has returned.
C12_Sequential ==
    /\ \A i \in 1..Len(invoked) : invoked[i].result = "running" => i = Len(invoked)
    /\ \A i, j \in 1..Len(invoked) :
         i < j => StageRank(invoked[i].stage) < StageRank(invoked[j].stage)
    /\ StageCalls # {} => ListComputed

C12_Witness ==
    /\ Done /\ Len(invoked) = 4
    /\ invoked[2].result = "nonzero" /\ invoked[4].result = "ok"

\* C13: when the decision is block, the error stream is the header, then one
\* line per collected entry in collection order, then the fix-and-retry
\* instruction; labels are in stage order, every failed stage's label is
\* there, and each excerpt directly follows the label of the stage whose
\* error stream it is taken from.
C13_ReportOrder ==
    exitCode = 2 =>
        /\ Len(stderrOut) = Len(errors) + 2
        /\ stderrOut[1].line = "QUALITY GATE BLOCKED STOP:"
        /\ stderrOut[Len(stderrOut)].line = "\nFix the failures, then continue."
        /\ \A j \in 1..Len(errors) : stderrOut[j + 1] = [line |-> "- ", e |-> errors[j]]
        /\ \A j, k \in 1..Len(errors) :
             (j < k /\ errors[j].kind = "label" /\ errors[k].kind = "label")
                => LabelRank(errors[j].label) < LabelRank(errors[k].label)
        /\ \A i \in StageCalls :
             invoked[i].result = "nonzero" =>
                \E j \in 1..Len(errors) : errors[j] = Label(LabelOf(invoked[i]))
        /\ \A j \in 1..Len(errors) :
             errors[j].kind = "excerpt" =>
                /\ j > 1
                /\ errors[j - 1].kind = "label"
                /\ \E i \in StageCalls :
                     /\ LabelOf(invoked[i]) = errors[j - 1].label
                     /\ invoked[i].result = "nonzero"
                     /\ ExcerptOf(errors[j], invoked[i])

C13_Witness ==
    /\ exitCode = 2
    /\ Len(errors) = 5
    /\ errors[1] = Label("lint failed") /\ errors[2].kind = "excerpt"
    /\ errors[3] = Label("typecheck failed") /\ errors[4] = Label("tests failed")
    /\ errors[2].text # errors[5].text

\* C14: when the invocation has ended, every stage that exited nonzero has
\* its label in the diagnostics, and the stages after a failed one were still
\* run (typecheck after lint, test after either when it is due).
C14_AllFailuresAggregated ==
    Done => \A i \in StageCalls :
        invoked[i].result = "nonzero" =>
            /\ InDiagnostics(LabelOf(invoked[i]))
            /\ invoked[i].stage = "lint" => StageRun("typecheck")
            /\ (invoked[i].stage # "test" /\ should_test(changed)
                  /\ has_script(pkgExists, pkgJson, "test")) => StageRun("test")

\* C15: when no stage failed the invocation exits 0 with an empty error
\* stream, and the block header is written only when the decision is block.
C15_SilentAllow ==
    Done =>
        /\ (\A i \in StageCalls : invoked[i].result = "ok")
              => (exitCode = 0 /\ stderrOut = <<>>)
        /\ (\E j \in 1..Len(stderrOut) : stderrOut[j].line = "QUALITY GATE BLOCKED STOP:")
              => exitCode = 2

\* C16: when the invocation has ended and the lint script exited nonzero with
\* a non-blank error stream, the decision is block and the diagnostics hold
\* "lint failed" and the truncated error stream.
C16_LintFailureReported ==
    Done => \A i \in CallsOf("lint") :
        (/\ invoked[i].cmd = <<pm_cmd, "run", "lint">>
         /\ invoked[i].result = "nonzero"
         /\ stripText(invoked[i].stderr) # <<>>) =>
            /\ exitCode = 2
            /\ InDiagnostics("lint failed")
            /\ \E j \in 1..Len(stderrOut) : ExcerptOf(stderrOut[j].e, invoked[i])

\* C17: every excerpt follows the label of a failed stage and is the initial
\* part of that stage's trimmed error stream of length min(2000, its length);
\* none is longer than 2000 characters, and there are at most three labels
\* and three excerpts.
C17_ExcerptBounded ==
    /\ \A j \in 1..Len(errors) :
         errors[j].kind = "excerpt" =>
            /\ lenText(errors[j].text) <= ExcerptLimit
            /\ j > 1
            /\ \E i \in StageCalls :
                 /\ invoked[i].result = "nonzero"
                 /\ errors[j - 1] = Label(LabelOf(invoked[i]))
                 /\ ExcerptOf(errors[j], invoked[i])
    /\ Cardinality({j \in 1..Len(errors) : errors[j].kind = "label"}) <= 3
    /\ Cardinality({j \in 1..Len(errors) : errors[j].kind = "excerpt"}) <= 3
    /\ \A j \in 1..Len(stderrOut) : lenText(stderrOut[j].e.text) <= ExcerptLimit

C17_Witness ==
    /\ exitCode = 2
    /\ \E j \in 1..Len(errors) : \E i \in StageCalls :
         /\ errors[j].kind = "excerpt"
         /\ lenText(errors[j].text) = ExcerptLimit
         /\ lenText(stripText(invoked[i].stderr)) = ExcerptLimit + 1
         /\ lenText(invoked[i].stderr) = ExcerptLimit + 2
         /\ ExcerptOf(errors[j], invoked[i])

\* the scenario of C18: the one changed file is under prisma/, a test and a
\* typecheck script are declared, no lint script, and typecheck passed
SchemaScenario ==
    /\ ListComputed
    /\ changed = << <<"p","r","i","s","m","a","/","s">> >>
    /\ has_script(pkgExists, pkgJson, "test")
    /\ ~has_script(pkgExists, pkgJson, "lint")
    /\ has_script(pkgExists, pkgJson, "typecheck")
    /\ \E i \in CallsOf("typecheck") : invoked[i].result = "ok"

\* C18: in that scenario the test stage is run, the decision is allow only if
\* the test stage exited 0, and a nonzero test exit gives block with
\* "tests failed" in the diagnostics.
C18_SchemaChangeEndToEnd ==
    SchemaScenario =>
        /\ \E i \in CallsOf("test") : invoked[i].cmd = <<pm_cmd, "test">>
        /\ exitCode = 0 => \A i \in CallsOf("test") : invoked[i].result = "ok"
        /\ \A i \in CallsOf("test") :
             invoked[i].result = "nonzero" => (exitCode = 2 /\ InDiagnostics("tests failed"))

C18_Witness ==
    /\ SchemaScenario /\ Done /\ ~eslintBin
    /\ \E i \in CallsOf("test") : invoked[i].result = "nonzero"
    /\ exitCode = 2

\* C19: once applicability is established, a declared lint script is the one
\* lint subprocess; without it, an existing local eslint binary makes the
\* direct invocation the one lint subprocess; without either no lint
\* subprocess is run, no lint label is recorded, and a block then always
\* comes from another stage's nonzero exit.
C19_LintSelection ==
    Applicable =>
        IF has_script(pkgExists, pkgJson, "lint")
        THEN /\ Cardinality(CallsOf("lint")) = 1
             /\ \A i \in CallsOf("lint") : invoked[i].cmd = <<pm_cmd, "run", "lint">>
        ELSE IF eslintBin
        THEN /\ Cardinality(CallsOf("lint")) = 1
             /\ \A i \in CallsOf("lint") : invoked[i].cmd = <<"npx", "eslint", ".">>
        ELSE /\ CallsOf("lint") = {}
             /\ \A j \in 1..Len(errors) : errors[j].label \notin {"lint failed", "eslint failed"}
             /\ exitCode = 2 => \E i \in StageCalls : invoked[i].result = "nonzero"

C19_Witness ==
    /\ Done /\ Applicable
    /\ ~has_script(pkgExists, pkgJson, "lint") /\ ~eslintBin
    /\ CallsOf("lint") = {} /\ exitCode = 0

\* C20: every applicable invocation has run exactly one typecheck subprocess
\* when it ends: the declared script, or else npx tsc --noEmit.
C20_TypecheckAlwaysRun ==
    (Done /\ Applicable) =>
        /\ Cardinality(CallsOf("typecheck")) = 1
        /\ \A i \in CallsOf("typecheck") :
             invoked[i].cmd = (IF has_script(pkgExists, pkgJson, "typecheck")
                               THEN <<pm_cmd, "run", "typecheck">>
                               ELSE <<"npx", "tsc", "--noEmit">>)

\* C21: once applicability is established the package manager is pnpm exactly
\* when pnpm-lock.yaml is present, yarn exactly when yarn.lock is present
\* without it, bun exactly when bun.lockb is the only recognised lockfile, and
\* npm exactly when there is none; every stage run through a declared script
\* (lint, typecheck, test) is launched with that one manager.
C21_PackageManager ==
    Applicable =>
        /\ (pm_cmd = "pnpm") = ("pnpm-lock.yaml" \in lockfiles)
        /\ (pm_cmd = "yarn") = ("yarn.lock" \in lockfiles /\ "pnpm-lock.yaml" \notin lockfiles)
        /\ (pm_cmd = "bun") = (lockfiles = {"bun.lockb"})
        /\ (pm_cmd = "npm") = (lockfiles = {})
        /\ \A stage \in Stages : has_script(pkgExists, pkgJson, stage) =>
             \A i \in CallsOf(stage) : invoked[i].cmd[1] = pm_cmd

C21_Witness ==
    /\ Done /\ Applicable
    /\ lockfiles = Lockfiles
    /\ \A stage \in Stages : \E i \in CallsOf(stage) :
         /\ invoked[i].cmd[1] = "pnpm"
         /\ invoked[i].cmd[Len(invoked[i].cmd)] = stage

\* C22: the calls follow the path lookup, lint, typecheck, test with no stage
\* run twice and at most four subprocesses in all, and an invocation whose
\* subprocesses all returned or timed out ends with allow (exit 0) or block
\* (exit 2).
C22_LinearPathToDecision ==
    /\ Len(invoked) <= 4
    /\ \A i, j \in 1..Len(invoked) :
         i < j => StageRank(invoked[i].stage) < StageRank(invoked[j].stage)
    /\ \A i \in 1..Len(invoked) : i < Len(invoked) => invoked[i].result # "running"
    /\ (Done /\ \A i \in 1..Len(invoked) : invoked[i].result # "oserror")
          => exitCode \in {0, 2}

\* C26: a lookup that exits nonzero with empty output ends the invocation as
\* "no changed files" does: allow (exit 0), no stage run, nothing written.
C26_LookupStatusIgnored ==
    (Done /\ Len(invoked) >= 1 /\ invoked[1].stage = "diff" /\ invoked[1].result = "nonzero")
        => /\ exitCode = 0
           /\ Len(invoked) = 1
           /\ changed = <<>>
           /\ stderrOut = <<>>
           /\ uncaught = "none"

C26_Witness ==
    /\ Done /\ tree # {}
    /\ Len(invoked) = 1 /\ invoked[1].stage = "diff" /\ invoked[1].result = "nonzero"
    /\ exitCode = 0

\* stage calls that exited nonzero, and those of them with a non-blank error stream
FailedCalls == {i \in StageCalls : invoked[i].result = "nonzero"}
NonBlankFailedCalls == {i \in FailedCalls : stripText(invoked[i].stderr) # <<>>}

\* C27: when the invocation has ended, every stage that exited nonzero has
\* recorded its label, followed by an excerpt exactly when its error stream
\* is non-blank after trimming, and the decision is block; nothing else is
\* recorded, so a stage that exited 0 recorded nothing.
C27_FailureRecording ==
    Done =>
        /\ \A i \in FailedCalls :
             /\ exitCode = 2
             /\ \E j \in 1..Len(errors) :
                  /\ errors[j] = Label(LabelOf(invoked[i]))
                  /\ (i \in NonBlankFailedCalls) =
                       (j < Len(errors) /\ errors[Min(j + 1, Len(errors))].kind = "excerpt")
        /\ Len(errors) = Cardinality(FailedCalls) + Cardinality(NonBlankFailedCalls)

\* C29: at most one lint subprocess is run; a recorded "lint failed" comes
\* from the lint script exiting nonzero and a recorded "eslint failed" from
\* the direct linter exiting nonzero, and never both are recorded or reported.
C29_LintExclusive ==
    /\ Cardinality(CallsOf("lint")) <= 1
    /\ \A i \in CallsOf("lint") : invoked[i].result = "nonzero" =>
         \E j \in 1..Len(errors) :
            errors[j].label = (IF invoked[i].cmd[1] = "npx" THEN "eslint failed" ELSE "lint failed")
    /\ \A j \in 1..Len(errors) :
         /\ errors[j].label = "lint failed" =>
              \E i \in CallsOf("lint") :
                 invoked[i].cmd = <<pm_cmd, "run", "lint">> /\ invoked[i].result = "nonzero"
         /\ errors[j].label = "eslint failed" =>
              \E i \in CallsOf("lint") :
                 invoked[i].cmd = <<"npx", "eslint", ".">> /\ invoked[i].result = "nonzero"
    /\ ~(InDiagnostics("lint failed") /\ InDiagnostics("eslint failed"))

C29_Witness ==
    /\ Done /\ exitCode = 2
    /\ \E i \in CallsOf("lint") :
         invoked[i].cmd = <<"npx", "eslint", ".">> /\ invoked[i].result = "nonzero"
    /\ InDiagnostics("eslint failed")
    /\ ~InDiagnostics("lint failed")

\* C30: with a package.json that cannot be parsed or has no scripts table,
\* an applicable invocation launches no stage through the package manager:
\* lint is the direct linter exactly when its binary exists, typecheck is
\* npx tsc --noEmit, the test stage is not run, and no exception other than
\* a subprocess fault leaves the orchestrator.
C30_DetectionFailsOpen ==
    (Applicable /\ (~pkgJson.valid \/ ~pkgJson.hasScripts)) =>
        /\ \A i \in 1..Len(invoked) : invoked[i].cmd[1] \in {"git", "npx"}
        /\ (CallsOf("lint") # {}) = eslintBin
        /\ \A i \in CallsOf("typecheck") : invoked[i].cmd = <<"npx", "tsc", "--noEmit">>
        /\ (\A i \in CallsOf("lint") : invoked[i].result \in {"ok", "nonzero"})
             => CallsOf("typecheck") # {}
        /\ CallsOf("test") = {}
        /\ uncaught # "none" => invoked[Len(invoked)].result \in {"timeout", "oserror"}

C30_Witness ==
    /\ Done /\ Applicable /\ exitCode = 0
    /\ ~pkgJson.valid /\ eslintBin /\ should_test(changed)
    /\ \E i \in CallsOf("lint") : invoked[i].cmd = <<"npx", "eslint", ".">>
    /\ \E i \in CallsOf("typecheck") : invoked[i].cmd = <<"npx", "tsc", "--noEmit">>
    /\ CallsOf("test") = {}

\* the working tree as the lookup saw it: edits are made only after it
TreeAtLookup == IF edits = <<>> THEN tree ELSE edits[1].tree

EditsDuring(p) == {k \in 1..Len(edits) : edits[k].during = p}

\* package.json as it was when the stage was selected: lint right after the
\* lookup, typecheck before the first edit made while typecheck ran, test
\* after the last edit
PkgWhenSelected(stage) ==
    IF stage = "lint" THEN (IF edits = <<>> THEN pkgJson ELSE edits[1].pkgJson)
    ELSE IF stage = "typecheck" /\ EditsDuring("typecheck") # {}
    THEN edits[CHOOSE k \in EditsDuring("typecheck") :
                  \A m \in EditsDuring("typecheck") : k <= m].pkgJson
    ELSE pkgJson

\* C28: with the project edited while lint or typecheck run, the lookup is
\* the first and only listing, the changed list stays the one computed from
\* the tree the lookup saw and alone decides (with the test script) whether
\* the test stage runs, while the lint and typecheck commands follow the
\* package.json read when each stage was selected.
C28_ListOnceScriptsReread ==
    /\ CallsOf("diff") \subseteq {1}
    /\ Applicable => changed = changedFrom(GitListing(TreeAtLookup, 1))
    /\ \A i \in CallsOf("lint") :
         (invoked[i].cmd = <<pm_cmd, "run", "lint">>)
            = has_script(pkgExists, PkgWhenSelected("lint"), "lint")
    /\ \A i \in CallsOf("typecheck") :
         (invoked[i].cmd = <<pm_cmd, "run", "typecheck">>)
            = has_script(pkgExists, PkgWhenSelected("typecheck"), "typecheck")
    /\ (\E i \in CallsOf("typecheck") : invoked[i].result \in {"ok", "nonzero"}) =>
         StageRun("test") = (/\ should_test(changedFrom(GitListing(TreeAtLookup, 1)))
                             /\ has_script(pkgExists, PkgWhenSelected("test"), "test"))

C28_Witness ==
    /\ Done /\ edits # <<>> /\ edits[1].during = "lint"
    /\ should_test(changed) /\ ~should_test(changedFrom(GitListing(tree, 1)))
    /\ StageRun("test")
    /\ ~has_script(pkgExists, edits[1].pkgJson, "typecheck")
    /\ \E i \in CallsOf("typecheck") : invoked[i].cmd = <<pm_cmd, "run", "typecheck">>

RuleOf(message) == CHOOSE r \in 1..Len(RuleTable) : RuleTable[r].message = message

\* C24: when the guard has decided on a decodable payload, it blocks (exit 2)
\* exactly when its diagnostics are non-empty; for a shell command the
\* diagnostics hold the message of a rule exactly when the rule's pattern
\* matches the command in any case, each once and in rule-table order; with
\* no matching rule the guard allows (exit 0) and writes nothing.
C24_GuardCollectsAllMatches ==
    (guard.pc = "done" /\ guard.payload.decodable) =>
        LET d == guard.diagnostics
            Matching == {r \in 1..Len(RuleTable) :
                            matches(RuleTable[r].pattern, guard.payload.command)}
        IN /\ guard.exit \in {0, 2}
           /\ (guard.exit = 2) = (d # <<>>)
           /\ guard.payload.tool_name = ShellTool =>
                /\ \A r \in 1..Len(RuleTable) :
                     (r \in Matching) = (\E j \in 1..Len(d) : d[j] = RuleTable[r].message)
                /\ \A j, k \in 1..Len(d) : j < k => RuleOf(d[j]) < RuleOf(d[k])
                /\ Matching = {} => (guard.exit = 0 /\ guard.stderr = <<>>)

C24_Witness ==
    /\ guard.pc = "done" /\ guard.exit = 2
    /\ guard.payload.command = <<"SUDO", "cat", ".env">>
    /\ guard.diagnostics = <<"privilege escalation", "reads a secrets file">>

\* C25: for a decodable payload of a tool other than the shell the guard
\* never tries a rule, collects and writes nothing, and ends with allow
\* (exit 0), whatever the payload's text matches.
C25_NonShellFastAccept ==
    (guard.payload.decodable /\ guard.payload.tool_name # ShellTool) =>
        /\ guard.pc # "rules"
        /\ guard.rule = 1
        /\ guard.diagnostics = <<>>
        /\ guard.stderr = <<>>
        /\ guard.pc = "done" => guard.exit = 0

C25_Witness ==
    /\ guard.pc = "done" /\ guard.exit = 0
    /\ guard.payload.tool_name = "Write"
    /\ matches(HardBlockRules[1].pattern, guard.payload.command)

====
